---------------------------- MODULE Spec2Model ----------------------------
(***************************************************************************)
(* Model of the TVUSVET data layer: the DatabaseService facade of          *)
(* src/src/services/database.js over the Tauri SQL plugin (SQLite), and    *)
(* the start-up effect of the application shell in src/src/App.js.         *)
(*                                                                         *)
(* The SQLite file is the variable store; the engine's behaviour on each   *)
(* statement is taken from the statement text and from the constraints     *)
(* declared by the CREATE TABLE statements of createTables.                *)
(***************************************************************************)
EXTENDS Integers, Sequences, FiniteSets, TLC

VARIABLES
  db,      \* this.db: NoHandle (null) or the Database object held
  loads,   \* number of Database.load invocations so far
  store,   \* the SQLite file: schema, rows of each table, sqlite_sequence
  ret,     \* how the last completed facade call ended, as its caller and the console see it
  calls,   \* facade calls in flight (suspended at an await), per caller
  app      \* the application shell: render/effect position

vars == <<db, loads, store, ret, calls, app>>

---------------------------------------------------------------------------
(* JavaScript values, as far as exam_data needs them.                      *)

JSUndefined == [t |-> "undefined", v |-> 0]
JSNull == [t |-> "null", v |-> 0]
JSNaN == [t |-> "NaN", v |-> 0]
JSNum(n) == [t |-> "number", v |-> n]
JSStr(s) == [t |-> "string", v |-> s]
JSBool(b) == [t |-> "boolean", v |-> b]
\* An object is its own enumerable properties in creation order: <<key, value>> pairs.
JSObj(props) == [t |-> "object", v |-> props]
JSArr(elems) == [t |-> "array", v |-> elems]

\* The strings and numbers that occur in payloads and in stored text.
JSStrings == {"clear", "notes", "size"}
JSNumbers == {1, 2}

Quote(s) == "\"" \o s \o "\""
StringTokens == {Quote(s) : s \in JSStrings}
NumberTokens == {ToString(n) : n \in JSNumbers}
Unquote(tok) == CHOOSE s \in JSStrings : Quote(s) = tok
NumberOf(tok) == CHOOSE n \in JSNumbers : ToString(n) = tok

(* JSON.stringify.  A text is the sequence of its lexical tokens            *)
(* (punctuators, literals, quoted strings); JSON.stringify emits no white   *)
(* space.  The empty sequence stands for the result undefined.              *)
RECURSIVE SerializeJSONProperty(_)
RECURSIVE SerializeJSONMembers(_)
RECURSIVE SerializeJSONElements(_)

\* NaN serializes as null: numbers that are not finite have no JSON text.
SerializeNaN == <<"null">>

SerializeJSONProperty(val) ==
  CASE val.t = "undefined" -> <<>>
    [] val.t = "null" -> <<"null">>
    [] val.t = "NaN" -> SerializeNaN
    [] val.t = "boolean" -> IF val.v THEN <<"true">> ELSE <<"false">>
    [] val.t = "number" -> <<ToString(val.v)>>
    [] val.t = "string" -> <<Quote(val.v)>>
    [] val.t = "object" -> <<"{">> \o SerializeJSONMembers(val.v) \o <<"}">>
    [] val.t = "array" -> <<"[">> \o SerializeJSONElements(val.v) \o <<"]">>

\* A property whose value is undefined is left out of the text.
SerializeJSONMembers(props) ==
  IF props = <<>> THEN <<>>
  ELSE LET p == SerializeJSONProperty(props[1][2])
           here == IF p = <<>> THEN <<>> ELSE <<Quote(props[1][1]), ":">> \o p
           rest == SerializeJSONMembers(Tail(props))
       IN  IF here = <<>> THEN rest
           ELSE IF rest = <<>> THEN here
           ELSE here \o <<",">> \o rest

\* An array element that is undefined is written as null.
SerializeJSONElements(elems) ==
  IF elems = <<>> THEN <<>>
  ELSE LET p == SerializeJSONProperty(elems[1])
           here == IF p = <<>> THEN <<"null">> ELSE p
       IN  IF Len(elems) = 1 THEN here
           ELSE here \o <<",">> \o SerializeJSONElements(Tail(elems))

JSONstringify(value) == SerializeJSONProperty(value)

(* JSON.parse: recursive descent over the tokens.  A parse step yields      *)
(* [ok, value, rest]; the text is well formed when the whole of it is one   *)
(* value.                                                                   *)
ParseFail == [ok |-> FALSE, value |-> JSUndefined, rest |-> <<>>]
ParseOk(value, rest) == [ok |-> TRUE, value |-> value, rest |-> rest]

\* CreateDataProperty: a repeated key keeps its place and takes the later value.
RECURSIVE SetProperty(_, _, _)
SetProperty(props, key, value) ==
  IF props = <<>> THEN << <<key, value>> >>
  ELSE IF props[1][1] = key THEN << <<key, value>> >> \o Tail(props)
  ELSE <<props[1]>> \o SetProperty(Tail(props), key, value)

RECURSIVE ParseValue(_)
RECURSIVE ParseMembers(_, _)
RECURSIVE ParseElements(_, _)

ParseValue(toks) ==
  IF toks = <<>> THEN ParseFail
  ELSE LET h == Head(toks)
           r == Tail(toks)
       IN  CASE h = "null" -> ParseOk(JSNull, r)
             [] h = "true" -> ParseOk(JSBool(TRUE), r)
             [] h = "false" -> ParseOk(JSBool(FALSE), r)
             [] h \in NumberTokens -> ParseOk(JSNum(NumberOf(h)), r)
             [] h \in StringTokens -> ParseOk(JSStr(Unquote(h)), r)
             [] h = "{" -> IF r # <<>> /\ Head(r) = "}"
                           THEN ParseOk(JSObj(<<>>), Tail(r))
                           ELSE ParseMembers(r, <<>>)
             [] h = "[" -> IF r # <<>> /\ Head(r) = "]"
                           THEN ParseOk(JSArr(<<>>), Tail(r))
                           ELSE ParseElements(r, <<>>)
             [] OTHER -> ParseFail

\* member (, member)* }   with   member ::= string : value
ParseMembers(toks, acc) ==
  IF Len(toks) < 3 \/ toks[1] \notin StringTokens \/ toks[2] # ":" THEN ParseFail
  ELSE LET m == ParseValue(SubSeq(toks, 3, Len(toks)))
       IN  IF ~m.ok \/ m.rest = <<>> THEN ParseFail
           ELSE LET props == SetProperty(acc, Unquote(toks[1]), m.value)
                IN  CASE Head(m.rest) = "}" -> ParseOk(JSObj(props), Tail(m.rest))
                      [] Head(m.rest) = "," -> ParseMembers(Tail(m.rest), props)
                      [] OTHER -> ParseFail

\* value (, value)* ]
ParseElements(toks, acc) ==
  LET e == ParseValue(toks)
  IN  IF ~e.ok \/ e.rest = <<>> THEN ParseFail
      ELSE CASE Head(e.rest) = "]" -> ParseOk(JSArr(Append(acc, e.value)), Tail(e.rest))
             [] Head(e.rest) = "," -> ParseElements(Tail(e.rest), Append(acc, e.value))
             [] OTHER -> ParseFail

\* [ok |-> FALSE] is the SyntaxError JSON.parse throws.
JSONparse(text) ==
  LET p == ParseValue(text)
  IN  IF p.ok /\ p.rest = <<>> THEN [ok |-> TRUE, value |-> p.value]
      ELSE [ok |-> FALSE, value |-> JSUndefined]

\* Deep equality of two JavaScript values: same kind, same primitive, same
\* keys with deep-equal values (in any order), same elements in order.
RECURSIVE DeepEqual(_, _)
Keys(props) == {props[i][1] : i \in DOMAIN props}
Get(props, key) == props[CHOOSE i \in DOMAIN props : props[i][1] = key][2]
DeepEqual(a, b) ==
  /\ a.t = b.t
  /\ CASE a.t = "object" ->
            /\ Keys(a.v) = Keys(b.v)
            /\ \A k \in Keys(a.v) : DeepEqual(Get(a.v, k), Get(b.v, k))
       [] a.t = "array" ->
            /\ Len(a.v) = Len(b.v)
            /\ \A i \in DOMAIN a.v : DeepEqual(a.v[i], b.v[i])
       [] OTHER -> a.v = b.v

\* The most forgiving deep equality in use: as DeepEqual, but a property
\* whose value is undefined counts as a property that is not there.
RECURSIVE LooseDeepEqual(_, _)
DefinedKeys(props) == {k \in Keys(props) : Get(props, k).t # "undefined"}
LooseDeepEqual(a, b) ==
  /\ a.t = b.t
  /\ CASE a.t = "object" ->
            /\ DefinedKeys(a.v) = DefinedKeys(b.v)
            /\ \A k \in DefinedKeys(a.v) :
                 LooseDeepEqual(Get(a.v, k), Get(b.v, k))
       [] a.t = "array" ->
            /\ Len(a.v) = Len(b.v)
            /\ \A i \in DOMAIN a.v : LooseDeepEqual(a.v[i], b.v[i])
       [] OTHER -> a.v = b.v

---------------------------------------------------------------------------
(* The SQLite file behind the plugin.  Column values: a text column holds  *)
(* a string or NULL; exam_data holds a JSON text (its tokens) or NULL.     *)
(* created_at / updated_at are timestamps filled by the engine and are not *)
(* part of the model.                                                      *)

\* The NULL of a text column; no text the model binds equals it.
NULL == "<NULL>"
SqlNullText == [null |-> TRUE, text |-> <<>>]
SqlText(tokens) == [null |-> FALSE, text |-> tokens]

\* A bound parameter: undefined reaches the engine as NULL.
BindText(tokens) == IF tokens = <<>> THEN SqlNullText ELSE SqlText(tokens)

\* const tablesSql: the table each statement creates, in array order.
tablesSql == <<"patients", "exams", "settings", "templates", "reference_values">>

NoError == "none"
NoSuchTable == "no such table"
NotNullFailed == "NOT NULL constraint failed"
UniqueFailed == "UNIQUE constraint failed"
ForeignKeyFailed == "FOREIGN KEY constraint failed"

EmptyStore ==
  [schema |-> <<>>,      \* table name -> index of the statement that created it
   patients |-> <<>>, exams |-> <<>>, settings |-> <<>>, templates |-> <<>>,
   seq |-> [patients |-> 0, exams |-> 0, templates |-> 0]]

HasTable(s, name) == name \in DOMAIN s.schema

\* What a statement gives back: an error, or the file after it and its result.
SqlError(s, error) == [error |-> error, store |-> s, result |-> <<>>]
SqlDone(s, result) == [error |-> NoError, store |-> s, result |-> result]
QueryResult(rowsAffected, lastInsertId) ==
  [rowsAffected |-> rowsAffected, lastInsertId |-> lastInsertId]

Ids(rows) == {rows[i].id : i \in DOMAIN rows}

\* Were the table dropped and created anew, its rows (and, for patients,
\* the exams that reference them) would be lost.
SqlDropAndCreateTable(s, i) ==
  [s EXCEPT !.schema = [n \in DOMAIN s.schema \cup {tablesSql[i]} |->
                          IF n = tablesSql[i] THEN i ELSE s.schema[n]],
            !.patients = IF i = 1 THEN <<>> ELSE @,
            !.exams = IF i \in {1, 2} THEN <<>> ELSE @,
            !.settings = IF i = 3 THEN <<>> ELSE @,
            !.templates = IF i = 4 THEN <<>> ELSE @]

\* CREATE TABLE IF NOT EXISTS <tablesSql[i]>: nothing changes when the table exists.
SqlCreateTableIfNotExists(s, i) ==
  IF HasTable(s, tablesSql[i]) THEN s
  ELSE [s EXCEPT !.schema = [n \in DOMAIN s.schema \cup {tablesSql[i]} |->
                               IF n = tablesSql[i] THEN i ELSE s.schema[n]]]

\* The file once the five statements of createTables have run.
RECURSIVE CreateTablesFrom(_, _)
CreateTablesFrom(s, i) ==
  IF i > Len(tablesSql) THEN s
  ELSE CreateTablesFrom(SqlCreateTableIfNotExists(s, i), i + 1)

\* The row of `rows` whose id is `id` (ids are a primary key).
RowById(rows, id) == rows[CHOOSE i \in DOMAIN rows : rows[i].id = id]

\* INSERT INTO patients (name, species, breed, owner_name) VALUES (?, ?, ?, ?)
\* id is AUTOINCREMENT: one more than the largest id ever given.  name is NOT NULL.
SqlInsertPatient(s, patient) ==
  IF ~HasTable(s, "patients") THEN SqlError(s, NoSuchTable)
  ELSE IF patient.name = NULL THEN SqlError(s, NotNullFailed)
  ELSE LET id == s.seq.patients + 1
           row == [id |-> id, name |-> patient.name, species |-> patient.species,
                   breed |-> patient.breed, owner_name |-> patient.owner_name]
       IN  SqlDone([s EXCEPT !.patients = Append(@, row), !.seq.patients = id],
                   QueryResult(1, id))

\* UPDATE patients SET name = ?, species = ?, breed = ?, owner_name = ? WHERE id = ?
SqlUpdatePatient(s, patient) ==
  IF ~HasTable(s, "patients") THEN SqlError(s, NoSuchTable)
  ELSE IF patient.id \notin Ids(s.patients) THEN SqlDone(s, QueryResult(0, 0))
  ELSE IF patient.name = NULL THEN SqlError(s, NotNullFailed)
  ELSE SqlDone([s EXCEPT !.patients =
                  [i \in DOMAIN @ |->
                     IF @[i].id = patient.id
                     THEN [id |-> patient.id, name |-> patient.name,
                           species |-> patient.species, breed |-> patient.breed,
                           owner_name |-> patient.owner_name]
                     ELSE @[i]]],
               QueryResult(1, 0))

\* FOREIGN KEY (patient_id) REFERENCES patients (id) ON DELETE CASCADE:
\* the exams left once patient `id` is deleted.
OnDeleteKeepAll(exams, id) == exams

OnDeleteCascade(exams, id) == SelectSeq(exams, LAMBDA e : e.patient_id # id)

\* DELETE FROM patients WHERE id = ?
SqlDeletePatient(s, id) ==
  IF ~HasTable(s, "patients") THEN SqlError(s, NoSuchTable)
  ELSE IF id \notin Ids(s.patients) THEN SqlDone(s, QueryResult(0, 0))
  ELSE SqlDone([s EXCEPT !.patients = SelectSeq(@, LAMBDA p : p.id # id),
                         !.exams = OnDeleteCascade(@, id)],
               QueryResult(1, 0))

\* SELECT * FROM patients ORDER BY name ASC / SELECT * FROM templates ORDER BY name ASC.
\* Names compare as the engine's BINARY collation compares these strings.
NamesInOrder == <<"Bidu", "Mia", "Rex", "Template A", "Template B">>
Rank(name) == CHOOSE i \in DOMAIN NamesInOrder : NamesInOrder[i] = name

RECURSIVE InsertByName(_, _)
InsertByName(sorted, row) ==
  IF sorted = <<>> THEN <<row>>
  ELSE IF Rank(row.name) < Rank(sorted[1].name) THEN <<row>> \o sorted
  ELSE <<sorted[1]>> \o InsertByName(Tail(sorted), row)

RECURSIVE SortByName(_)
SortByName(rows) ==
  IF rows = <<>> THEN <<>>
  ELSE InsertByName(SortByName(SubSeq(rows, 1, Len(rows) - 1)), rows[Len(rows)])

NoOrder(rows) == rows

OrderByNameAsc(rows) == SortByName(rows)

SqlSelectPatients(s) ==
  IF ~HasTable(s, "patients") THEN SqlError(s, NoSuchTable)
  ELSE SqlDone(s, OrderByNameAsc(s.patients))

\* INSERT INTO exams (patient_id, exam_type, exam_data) VALUES (?, ?, ?)
\* patient_id and exam_type are NOT NULL; patient_id references patients (id).
SqlInsertExam(s, patient_id, exam_type, exam_data) ==
  IF ~HasTable(s, "exams") THEN SqlError(s, NoSuchTable)
  ELSE IF patient_id = 0 \/ exam_type = NULL THEN SqlError(s, NotNullFailed)
  ELSE IF patient_id \notin Ids(s.patients) THEN SqlError(s, ForeignKeyFailed)
  ELSE LET id == s.seq.exams + 1
           row == [id |-> id, patient_id |-> patient_id, exam_type |-> exam_type,
                   exam_data |-> exam_data]
       IN  SqlDone([s EXCEPT !.exams = Append(@, row), !.seq.exams = id],
                   QueryResult(1, id))

\* UPDATE exams SET exam_data = ?, updated_at = CURRENT_TIMESTAMP WHERE id = ?
SqlUpdateExam(s, exam_data, id) ==
  IF ~HasTable(s, "exams") THEN SqlError(s, NoSuchTable)
  ELSE IF id \notin Ids(s.exams) THEN SqlDone(s, QueryResult(0, 0))
  ELSE SqlDone([s EXCEPT !.exams =
                  [i \in DOMAIN @ |->
                     IF @[i].id = id THEN [@[i] EXCEPT !.exam_data = exam_data]
                     ELSE @[i]]],
               QueryResult(1, 0))

\* DELETE FROM exams WHERE id = ?
SqlDeleteExam(s, id) ==
  IF ~HasTable(s, "exams") THEN SqlError(s, NoSuchTable)
  ELSE IF id \notin Ids(s.exams) THEN SqlDone(s, QueryResult(0, 0))
  ELSE SqlDone([s EXCEPT !.exams = SelectSeq(@, LAMBDA e : e.id # id)],
               QueryResult(1, 0))

\* SELECT * FROM exams WHERE id = ?
SqlSelectExamById(s, id) ==
  IF ~HasTable(s, "exams") THEN SqlError(s, NoSuchTable)
  ELSE SqlDone(s, SelectSeq(s.exams, LAMBDA e : e.id = id))

\* SELECT * FROM exams WHERE patient_id = ?
SqlSelectExamsByPatientId(s, patientId) ==
  IF ~HasTable(s, "exams") THEN SqlError(s, NoSuchTable)
  ELSE SqlDone(s, SelectSeq(s.exams, LAMBDA e : e.patient_id = patientId))

\* INSERT OR REPLACE INTO settings (key, value) VALUES (?, ?)
\* key is the PRIMARY KEY and NOT NULL: OR IGNORE would keep the old row.
\* A new row's rowid is one more than the largest rowid in the table.
NextRowid(rows) ==
  IF rows = <<>> THEN 1
  ELSE 1 + (CHOOSE m \in {rows[i].rowid : i \in DOMAIN rows} :
              \A i \in DOMAIN rows : rows[i].rowid <= m)

InsertOrIgnore(rows, key, value) ==
  IF \E i \in DOMAIN rows : rows[i].key = key THEN rows
  ELSE Append(rows, [rowid |-> NextRowid(rows), key |-> key, value |-> value])

\* OR REPLACE deletes the row that holds the key, then inserts the new one.
InsertOrReplace(rows, key, value) ==
  LET kept == SelectSeq(rows, LAMBDA r : r.key # key)
  IN  Append(kept, [rowid |-> NextRowid(kept), key |-> key, value |-> value])

SqlInsertOrReplaceSetting(s, key, value) ==
  IF ~HasTable(s, "settings") THEN SqlError(s, NoSuchTable)
  ELSE IF key = NULL THEN SqlError(s, NotNullFailed)
  ELSE LET rows == InsertOrReplace(s.settings, key, value)
       IN  SqlDone([s EXCEPT !.settings = rows], QueryResult(1, rows[Len(rows)].rowid))

\* SELECT * FROM settings
SqlSelectSettings(s) ==
  IF ~HasTable(s, "settings") THEN SqlError(s, NoSuchTable)
  ELSE SqlDone(s, s.settings)

\* name TEXT NOT NULL UNIQUE: does `name` collide with a row other than `id`?
NeverTaken(rows, name, id) == FALSE

NameTaken(rows, name, id) ==
  \E i \in DOMAIN rows : rows[i].name = name /\ rows[i].id # id

\* INSERT INTO templates (name, content) VALUES (?, ?)
SqlInsertTemplate(s, template) ==
  IF ~HasTable(s, "templates") THEN SqlError(s, NoSuchTable)
  ELSE IF template.name = NULL \/ template.content = NULL
       THEN SqlError(s, NotNullFailed)
  ELSE IF NameTaken(s.templates, template.name, 0) THEN SqlError(s, UniqueFailed)
  ELSE LET id == s.seq.templates + 1
           row == [id |-> id, name |-> template.name, content |-> template.content]
       IN  SqlDone([s EXCEPT !.templates = Append(@, row), !.seq.templates = id],
                   QueryResult(1, id))

\* UPDATE templates SET name = ?, content = ? WHERE id = ?
SqlUpdateTemplate(s, template) ==
  IF ~HasTable(s, "templates") THEN SqlError(s, NoSuchTable)
  ELSE IF template.id \notin Ids(s.templates) THEN SqlDone(s, QueryResult(0, 0))
  ELSE IF template.name = NULL \/ template.content = NULL
       THEN SqlError(s, NotNullFailed)
  ELSE IF NameTaken(s.templates, template.name, template.id)
       THEN SqlError(s, UniqueFailed)
  ELSE SqlDone([s EXCEPT !.templates =
                  [i \in DOMAIN @ |->
                     IF @[i].id = template.id
                     THEN [id |-> template.id, name |-> template.name,
                           content |-> template.content]
                     ELSE @[i]]],
               QueryResult(1, 0))

\* DELETE FROM templates WHERE id = ?
SqlDeleteTemplate(s, id) ==
  IF ~HasTable(s, "templates") THEN SqlError(s, NoSuchTable)
  ELSE IF id \notin Ids(s.templates) THEN SqlDone(s, QueryResult(0, 0))
  ELSE SqlDone([s EXCEPT !.templates = SelectSeq(@, LAMBDA t : t.id # id)],
               QueryResult(1, 0))

\* SELECT * FROM templates ORDER BY name ASC
SqlSelectTemplates(s) ==
  IF ~HasTable(s, "templates") THEN SqlError(s, NoSuchTable)
  ELSE SqlDone(s, OrderByNameAsc(s.templates))

---------------------------------------------------------------------------
(* The facade.  A call that does not overlap another one is one step: the  *)
(* lazy open, the one statement, and what the caller gets back.            *)

NoHandle == 0

\* Database.load either resolves with a new Database object or rejects.
LoadOutcomes == IF db = NoHandle THEN {TRUE, FALSE} ELSE {TRUE}

\* Console messages.
LogLoad == "Erro ao carregar o banco de dados:"
LogExecute == "Erro ao executar:"
LogQuery == "Erro ao consultar:"
LogTables == "Erro ao criar tabelas:"
LogParse == "Falha ao parsear exam_data:"
LoadFailed == "load failed"

\* Were open() to swallow the rejection instead of rethrowing it.
openSwallowsError(loadOk) ==
  IF loadOk THEN [db |-> loads + 1, loads |-> loads + 1, error |-> NoError]
  ELSE [db |-> db, loads |-> loads + 1, error |-> NoError]

\* if (!this.db) await this.open(): the handle and the load count after it,
\* and the error open() rethrows when the load rejects.
open(loadOk) ==
  IF loadOk THEN [db |-> loads + 1, loads |-> loads + 1, error |-> NoError]
  ELSE [db |-> db, loads |-> loads + 1, error |-> LoadFailed]

LazyOpen(loadOk) ==
  IF db # NoHandle THEN [db |-> db, loads |-> loads, error |-> NoError]
  ELSE open(loadOk)

\* What a call hands to its caller: a value, or the error it raises, and
\* what it wrote to the console.
\* ran: the statements the call handed to the engine (a CRUD statement goes
\* by the name of its method, a CREATE TABLE by its table); failed: those
\* of them the engine rejected.
Returned(op, args, value, ran) ==
  [op |-> op, args |-> args, raised |-> NoError, logged |-> <<>>, value |-> value,
   ran |-> ran, failed |-> <<>>]
Raised(op, args, error, logged, ran) ==
  [op |-> op, args |-> args, raised |-> error, logged |-> logged, value |-> <<>>,
   ran |-> ran, failed |-> ran]

\* execute(sql, params) / query(sql, params), with the statement's effect r
\* worked out on the file as it is: the outcome of the call.
Run(op, args, c, r, logLine) ==
  IF c.error # NoError THEN Raised(op, args, c.error, <<LogLoad>>, <<>>)
  ELSE IF r.error # NoError THEN Raised(op, args, r.error, <<logLine>>, <<op>>)
  ELSE Returned(op, args, r.result, <<op>>)

StoreAfter(c, r) == IF c.error # NoError THEN store ELSE r.store

\* Database.load is invoked at most MaxLoads times in a run of the model.
MaxLoads == 2
CanOpen == db # NoHandle \/ loads < MaxLoads

execute(op, args, loadOk, r) ==
  LET c == LazyOpen(loadOk)
  IN  /\ CanOpen
      /\ db' = c.db
      /\ loads' = c.loads
      /\ store' = StoreAfter(c, r)
      /\ ret' = Run(op, args, c, r, LogExecute)
      /\ UNCHANGED <<calls, app>>

query(op, args, loadOk, r) ==
  LET c == LazyOpen(loadOk)
  IN  /\ CanOpen
      /\ db' = c.db
      /\ loads' = c.loads
      /\ ret' = Run(op, args, c, r, LogQuery)
      /\ UNCHANGED <<store, calls, app>>

\* The methods class DatabaseService defines.
FacadeMethods ==
  {"open", "execute", "query", "createTables", "getPatients", "addPatient",
   "updatePatient", "deletePatient", "getExamsByPatientId", "addExam", "updateExam",
   "getExamById", "deleteExam", "getSettings", "saveSettings", "getTemplates",
   "addTemplate", "updateTemplate", "deleteTemplate"}

\* App's useEffect(() => { db.init(); }, []) on the first render: what the
\* effect did, and how many times it invoked createTables.
AppRendered == [effect |-> "pending", createTablesCalls |-> 0]
AppAfterEffect ==
  IF "init" \in FacadeMethods
  THEN [effect |-> "returned", createTablesCalls |-> 1]
  ELSE [effect |-> "TypeError: db.init is not a function", createTablesCalls |-> 0]

\* No facade call is suspended at an await.
MaxCallers == 2
Callers == 1..MaxCallers
Idle == [pc |-> "idle", op |-> "none", i |-> 0, h |-> NoHandle]
NoCalls == [c \in Callers |-> Idle]

getPatients ==
  \E loadOk \in LoadOutcomes :
    query("getPatients", <<>>, loadOk, SqlSelectPatients(store))

addPatient(patient) ==
  \E loadOk \in LoadOutcomes :
    execute("addPatient", patient, loadOk, SqlInsertPatient(store, patient))

updatePatient(patient) ==
  \E loadOk \in LoadOutcomes :
    execute("updatePatient", patient, loadOk, SqlUpdatePatient(store, patient))

deletePatient(id) ==
  \E loadOk \in LoadOutcomes :
    execute("deletePatient", id, loadOk, SqlDeletePatient(store, id))

getExamsByPatientId(patientId) ==
  \E loadOk \in LoadOutcomes :
    query("getExamsByPatientId", patientId, loadOk,
          SqlSelectExamsByPatientId(store, patientId))

\* const examDataString = JSON.stringify(exam.exam_data)
addExam(exam) ==
  \E loadOk \in LoadOutcomes :
    execute("addExam", exam, loadOk,
            SqlInsertExam(store, exam.patient_id, exam.exam_type,
                          BindText(JSONstringify(exam.exam_data))))

updateExam(exam) ==
  \E loadOk \in LoadOutcomes :
    execute("updateExam", exam, loadOk,
            SqlUpdateExam(store, BindText(JSONstringify(exam.exam_data)), exam.id))

\* The catch of getExamById, were it to hand back null instead of {}.
ParsedOrNull(column) ==
  LET p == JSONparse(IF column.null THEN <<"null">> ELSE column.text)
  IN  IF p.ok THEN [value |-> p.value, logged |-> <<>>]
      ELSE [value |-> JSNull, logged |-> <<LogParse>>]

\* try { JSON.parse(results[0].exam_data) } catch { {} }; JSON.parse turns
\* its argument into a string first, so a NULL column parses as "null".
ParseExamData(column) ==
  LET p == JSONparse(IF column.null THEN <<"null">> ELSE column.text)
  IN  IF p.ok THEN [value |-> p.value, logged |-> <<>>]
      ELSE [value |-> JSObj(<<>>), logged |-> <<LogParse>>]

\* What getExamById makes of the rows its query returned.
ExamResult(rows) ==
  IF Len(rows) > 0
  THEN LET p == ParseExamData(rows[1].exam_data)
       IN  [value |-> [rows[1] EXCEPT !.exam_data = p.value], logged |-> p.logged]
  ELSE [value |-> JSNull, logged |-> <<>>]

getExamById(id) ==
  \E loadOk \in LoadOutcomes :
    LET c == LazyOpen(loadOk)
        q == Run("getExamById", id, c, SqlSelectExamById(store, id), LogQuery)
        e == ExamResult(q.value)
    IN  /\ CanOpen
        /\ db' = c.db
        /\ loads' = c.loads
        /\ ret' = IF q.raised # NoError THEN q
                  ELSE [q EXCEPT !.value = e.value, !.logged = e.logged]
        /\ UNCHANGED <<store, calls, app>>

deleteExam(id) ==
  \E loadOk \in LoadOutcomes :
    execute("deleteExam", id, loadOk, SqlDeleteExam(store, id))

\* A caller of execute() itself, binding a text of its own to the statement
\* of updateExam: the stored exam_data need not be the text of any payload.
executeSetExamData(id, column) ==
  \E loadOk \in LoadOutcomes :
    execute("execute", <<id, column>>, loadOk, SqlUpdateExam(store, column, id))

\* results.forEach(row => { settings[row.key] = row.value })
RECURSIVE FoldSettings(_, _)
FoldSettings(rows, settings) ==
  IF rows = <<>> THEN settings
  ELSE FoldSettings(Tail(rows),
                    [k \in DOMAIN settings \cup {rows[1].key} |->
                       IF k = rows[1].key THEN rows[1].value ELSE settings[k]])

getSettings ==
  \E loadOk \in LoadOutcomes :
    LET c == LazyOpen(loadOk)
        q == Run("getSettings", <<>>, c, SqlSelectSettings(store), LogQuery)
    IN  /\ CanOpen
        /\ db' = c.db
        /\ loads' = c.loads
        /\ ret' = IF q.raised # NoError THEN q
                  ELSE [q EXCEPT !.value = FoldSettings(q.value, <<>>)]
        /\ UNCHANGED <<store, calls, app>>

saveSettings(key, value) ==
  \E loadOk \in LoadOutcomes :
    execute("saveSettings", <<key, value>>, loadOk,
            SqlInsertOrReplaceSetting(store, key, value))

getTemplates ==
  \E loadOk \in LoadOutcomes :
    query("getTemplates", <<>>, loadOk, SqlSelectTemplates(store))

addTemplate(template) ==
  \E loadOk \in LoadOutcomes :
    execute("addTemplate", template, loadOk, SqlInsertTemplate(store, template))

updateTemplate(template) ==
  \E loadOk \in LoadOutcomes :
    execute("updateTemplate", template, loadOk, SqlUpdateTemplate(store, template))

deleteTemplate(id) ==
  \E loadOk \in LoadOutcomes :
    execute("deleteTemplate", id, loadOk, SqlDeleteTemplate(store, id))


\* for (const sql of tablesSql) await this.db.execute(sql), inside one try:
\* the statements run when the engine would reject those in `failing`.
\* The first rejection leaves the loop.
RunEveryStatement(failing) == [i \in 1..Len(tablesSql) |-> i]

StatementsRun(failing) ==
  IF failing = {} THEN [i \in 1..Len(tablesSql) |-> i]
  ELSE [i \in 1..(CHOOSE m \in failing : \A f \in failing : m <= f) |-> i]

RECURSIVE ApplyCreates(_, _, _)
ApplyCreates(s, ran, failing) ==
  IF ran = <<>> THEN s
  ELSE ApplyCreates(IF ran[1] \in failing THEN s
                    ELSE SqlCreateTableIfNotExists(s, ran[1]),
                    Tail(ran), failing)

\* createTables(): open() is awaited before the try; inside it every
\* rejection is caught and logged.
createTables ==
  \E loadOk \in LoadOutcomes, failing \in SUBSET (1..Len(tablesSql)) :
    LET c == LazyOpen(loadOk)
        ran == StatementsRun(failing)
        failed == SelectSeq(ran, LAMBDA i : i \in failing)
    IN  /\ CanOpen
        /\ db' = c.db
        /\ loads' = c.loads
        /\ store' = IF c.error # NoError THEN store ELSE ApplyCreates(store, ran, failing)
        /\ ret' = IF c.error # NoError
                  THEN Raised("createTables", <<>>, c.error, <<LogLoad>>, <<>>)
                  ELSE [op |-> "createTables", args |-> <<>>, raised |-> NoError,
                        logged |-> [i \in DOMAIN failed |-> LogTables],
                        value |-> <<>>,
                        ran |-> [i \in DOMAIN ran |-> tablesSql[ran[i]]],
                        failed |-> [i \in DOMAIN failed |-> tablesSql[failed[i]]]]
        /\ UNCHANGED <<calls, app>>

---------------------------------------------------------------------------
(* The facade from its construction: schema initialization, with a load    *)
(* that may reject and statements the engine may reject.                   *)

MaxSchemaPatients == 2

\* Patient records as the views pass them; a field left out is bound as NULL.
Rex == [id |-> 0, name |-> "Rex", species |-> "dog", breed |-> NULL, owner_name |-> NULL]
Mia == [id |-> 0, name |-> "Mia", species |-> "cat", breed |-> "siamese", owner_name |-> "Ana"]
Bidu == [id |-> 0, name |-> "Bidu", species |-> "dog", breed |-> "poodle", owner_name |-> "Ana"]
Nameless == [id |-> 0, name |-> NULL, species |-> "dog", breed |-> NULL, owner_name |-> NULL]

\* constructor(): this.db = null; the database file holds no table yet.
Init ==
  /\ db = NoHandle
  /\ loads = 0
  /\ store = EmptyStore
  /\ ret = Returned("constructor", <<>>, <<>>, <<>>)
  /\ calls = NoCalls
  /\ app = AppAfterEffect

Next ==
  \/ createTables
  \/ store.seq.patients < MaxSchemaPatients /\ addPatient(Rex)
  \/ getPatients

Spec == Init /\ [][Next]_vars

AllTables == {tablesSql[i] : i \in DOMAIN tablesSql}
CreateTablesEnded == ret.op = "createTables"

\* C5 as stated: when a statement of createTables fails, the failure is
\* logged and every statement after it is still executed.
C5_RemainingStatementsRun ==
  (CreateTablesEnded /\ ret.failed # <<>>)
    => /\ ret.logged # <<>>
       /\ ret.ran = tablesSql

\* C5 amended: when a statement of createTables fails, the failure is
\* logged once, no statement after it is executed, and the call returns
\* normally.
C5_FirstFailureEndsLoop ==
  (CreateTablesEnded /\ ret.failed # <<>>)
    => /\ ret.raised = NoError
       /\ ret.logged = <<LogTables>>
       /\ Len(ret.failed) = 1
       /\ ret.ran = SubSeq(tablesSql, 1, Len(ret.ran))
       /\ ret.failed[1] = ret.ran[Len(ret.ran)]

C5_Witness ==
  /\ CreateTablesEnded
  /\ ret.failed = <<"settings">>
  /\ ret.ran = <<"patients", "exams", "settings">>
  /\ DOMAIN store.schema = {"patients", "exams"}

\* C6 as stated: createTables never raises to its caller, whether or not
\* a handle is held.
C6_NeverRaises == CreateTablesEnded => ret.raised = NoError

\* C6 amended: createTables raises exactly when no handle is held and the
\* load rejects; it then raises the load error before any statement is
\* run.  Every failure of a statement is logged only.
C6_RaisesOnlyLoadFailure ==
  [][ret'.op = "createTables" =>
       /\ (ret'.raised # NoError) <=> (db = NoHandle /\ db' = NoHandle)
       /\ ret'.raised # NoError =>
            /\ ret'.raised = LoadFailed
            /\ ret'.logged = <<LogLoad>>
            /\ ret'.ran = <<>>
            /\ store' = store
       /\ ret'.failed # <<>> => (ret'.raised # NoError \/ ret'.logged # <<>>)
    ]_vars

C6_Witness ==
  /\ CreateTablesEnded
  /\ ret.raised = NoError
  /\ ret.failed = <<"patients">>
  /\ ret.logged = <<LogTables>>
  /\ db # NoHandle

---------------------------------------------------------------------------
(* Exam payloads through addExam / updateExam / getExamById.               *)

\* The facade after a first createTables() that met no failure.
InitOpened ==
  /\ db = 1
  /\ loads = 1
  /\ store = CreateTablesFrom(EmptyStore, 1)
  /\ ret = Returned("createTables", <<>>, <<>>, tablesSql)
  /\ calls = NoCalls
  /\ app = AppAfterEffect

Leaves == {JSNull, JSNaN, JSUndefined, JSNum(1), JSStr("clear")}

\* exam_data as the exam view may hand it over: objects and arrays.
ExamPayloads ==
  {JSObj(<<>>)}
    \cup {JSObj(<< <<"notes", l>> >>) : l \in Leaves}
    \cup {JSArr(<<l>>) : l \in Leaves}
    \cup {JSObj(<< <<"notes", JSStr("clear")>>, <<"size", l>> >>) :
            l \in {JSNum(2), JSNaN, JSUndefined}}
    \cup {JSObj(<< <<"notes", JSObj(<< <<"size", JSNum(1)>> >>)>> >>),
          JSObj(<< <<"notes", JSArr(<<JSNum(1), JSNull>>)>> >>)}

\* Texts a caller of execute() may store: NULL, the empty string, a
\* truncated object, a token JSON does not have.
RawColumns ==
  {SqlNullText, SqlText(<<>>), SqlText(<<"{", Quote("notes"), ":">>), SqlText(<<"NaN">>)}

MaxPayloadPatients == 1
MaxPayloadExams == 1

NextExamData ==
  \/ store.seq.patients < MaxPayloadPatients /\ addPatient(Rex)
  \/ \E pid \in 1..(MaxPayloadPatients + 1), P \in ExamPayloads :
       /\ store.seq.exams < MaxPayloadExams
       /\ addExam([patient_id |-> pid, exam_type |-> "xray", exam_data |-> P])
  \/ \E id \in 1..MaxPayloadExams, P \in ExamPayloads :
       updateExam([id |-> id, exam_data |-> P])
  \/ \E id \in 1..MaxPayloadExams, column \in RawColumns :
       executeSetExamData(id, column)
  \/ \E id \in 1..(MaxPayloadExams + 1) : getExamById(id)

SpecExamData == InitOpened /\ [][NextExamData]_vars

\* A payload JSON can write down: no undefined and no NaN anywhere in it.
RECURSIVE IsJSON(_)
IsJSON(v) ==
  CASE v.t \in {"undefined", "NaN"} -> FALSE
    [] v.t = "object" -> \A i \in DOMAIN v.v : IsJSON(v.v[i][2])
    [] v.t = "array" -> \A i \in DOMAIN v.v : IsJSON(v.v[i])
    [] OTHER -> TRUE

Malformed(column) == ~column.null /\ ~JSONparse(column.text).ok

\* getExamById(id) on the file as it is.
GetExam(id) == ExamResult(SqlSelectExamById(store, id).result).value

AddExamDone == ret.op = "addExam" /\ ret.raised = NoError

\* getExamById on a row whose stored text is malformed gives the row with
\* exam_data = {} and does not raise.
MalformedGivesEmpty ==
  (/\ ret.op = "getExamById"
   /\ ret.args \in Ids(store.exams)
   /\ Malformed(RowById(store.exams, ret.args).exam_data))
    => /\ ret.raised = NoError
       /\ ret.value.id = ret.args
       /\ ret.value.exam_data = JSObj(<<>>)

\* addExam for an existing patient does not raise.
AddExamAccepted ==
  (ret.op = "addExam" /\ ret.args.patient_id \in Ids(store.patients))
    => ret.raised = NoError

\* C1 as stated: for every structured payload P and existing patient,
\* addExam(P) then getExamById(inserted id) gives exam_data deep-equal to P
\* (read with the most forgiving deep equality); malformed stored text
\* gives {} without raising.
C1_RoundTripAnyPayload ==
  /\ AddExamAccepted
  /\ AddExamDone
       => LooseDeepEqual(GetExam(ret.value.lastInsertId).exam_data,
                         ret.args.exam_data)
  /\ MalformedGivesEmpty

\* C1 amended: the round trip holds (with strict deep equality) for every
\* payload made only of plain objects, arrays, strings, booleans, null and
\* finite numbers, with no undefined and no NaN anywhere in it; malformed
\* stored text gives {} without raising.
C1_RoundTripJSON ==
  /\ AddExamAccepted
  /\ (AddExamDone /\ IsJSON(ret.args.exam_data))
       => /\ GetExam(ret.value.lastInsertId).id = ret.value.lastInsertId
          /\ DeepEqual(GetExam(ret.value.lastInsertId).exam_data, ret.args.exam_data)
  /\ MalformedGivesEmpty

C1_Witness ==
  /\ AddExamDone
  /\ ret.args.exam_data = JSObj(<< <<"notes", JSArr(<<JSNum(1), JSNull>>)>> >>)
  /\ GetExam(ret.value.lastInsertId).exam_data = ret.args.exam_data

---------------------------------------------------------------------------
(* Patients and their exams.                                               *)

MaxPatients == 2
MaxExams == 2

NextPatientExams ==
  \/ \E p \in {Rex, Mia} : store.seq.patients < MaxPatients /\ addPatient(p)
  \/ \E id \in 1..MaxPatients, p \in {Rex, Mia} : updatePatient([p EXCEPT !.id = id])
  \/ \E id \in 1..MaxPatients : deletePatient(id)
  \/ \E pid \in 1..MaxPatients :
       /\ store.seq.exams < MaxExams
       /\ addExam([patient_id |-> pid, exam_type |-> "xray",
                   exam_data |-> JSObj(<< <<"notes", JSStr("clear")>> >>)])
  \/ \E id \in 1..MaxExams : updateExam([id |-> id, exam_data |-> JSObj(<<>>)])
  \/ \E id \in 1..MaxExams : deleteExam(id)
  \/ \E pid \in 1..MaxPatients : getExamsByPatientId(pid)

SpecPatientExams == InitOpened /\ [][NextPatientExams]_vars

\* C2: every stored exam's patient_id is the id of a stored patient, and
\* right after deletePatient(p) the exams of p are the empty sequence.
C2_ExamsReferencePatients ==
  /\ \A i \in DOMAIN store.exams : store.exams[i].patient_id \in Ids(store.patients)
  /\ (ret.op = "deletePatient" /\ ret.raised = NoError)
       => SqlSelectExamsByPatientId(store, ret.args).result = <<>>
  /\ (ret.op = "getExamsByPatientId" /\ ret.args \notin Ids(store.patients))
       => ret.value = <<>>

\* A patient was deleted while the other one keeps its exam: fewer exams
\* are stored than were ever added.
C2_Witness ==
  /\ ret.op = "deletePatient"
  /\ ret.raised = NoError
  /\ ret.value.rowsAffected = 1
  /\ Len(store.patients) = 1
  /\ Len(store.exams) = 1
  /\ store.seq.exams = 2

---------------------------------------------------------------------------
(* The patient list.                                                       *)

MaxListedPatients == 3

PatientRecords == {Rex, Mia, Bidu, Nameless}

NextPatients ==
  \/ \E p \in PatientRecords : store.seq.patients < MaxListedPatients /\ addPatient(p)
  \/ \E id \in 1..MaxListedPatients, p \in PatientRecords :
       updatePatient([p EXCEPT !.id = id])
  \/ \E id \in 1..MaxListedPatients : deletePatient(id)
  \/ getPatients

SpecPatients == InitOpened /\ [][NextPatients]_vars

\* getPatients() on the file `s`.
Listing(s) == SqlSelectPatients(s).result
RowSet(rows) == {rows[i] : i \in DOMAIN rows}
AscendingByName(rows) ==
  \A i, j \in DOMAIN rows : i < j => Rank(rows[i].name) <= Rank(rows[j].name)
UniqueIds(rows) == \A i, j \in DOMAIN rows : rows[i].id = rows[j].id => i = j

\* The rows the list must hold after the call that just ended, given the
\* rows it held before: the call's own row as written, every other row as
\* it was.
ExpectedRows(before, call) ==
  IF call.raised # NoError THEN before
  ELSE CASE call.op = "addPatient" ->
              before \cup {[call.args EXCEPT !.id = call.value.lastInsertId]}
         [] call.op = "updatePatient" ->
              IF call.args.id \in {r.id : r \in before}
              THEN {r \in before : r.id # call.args.id} \cup {call.args}
              ELSE before
         [] call.op = "deletePatient" -> {r \in before : r.id # call.args}
         [] OTHER -> before

\* C10: after every addPatient / updatePatient / deletePatient the list is
\* exactly the stored patients, each as last written, in ascending name
\* order; getPatients returns that list.
C10_ListingAsWritten ==
  [][/\ RowSet(Listing(store')) = ExpectedRows(RowSet(Listing(store)), ret')
     /\ RowSet(Listing(store')) = RowSet(store'.patients)
     /\ Len(Listing(store')) = Len(store'.patients)
     /\ UniqueIds(Listing(store'))
     /\ AscendingByName(Listing(store'))
     /\ (ret'.op = "getPatients" => ret'.value = Listing(store'))
     /\ (ret'.op = "addPatient" /\ ret'.args.name # NULL => ret'.raised = NoError)
    ]_vars

\* The patient added last sorts before the one added first.
C10_Witness ==
  /\ ret.op = "addPatient"
  /\ ret.raised = NoError
  /\ Len(store.patients) = 2
  /\ Listing(store)[1].id = ret.value.lastInsertId
  /\ Listing(store)[1].name = ret.args.name
  /\ Listing(store)[1].owner_name = ret.args.owner_name

---------------------------------------------------------------------------
(* Settings.                                                               *)

MaxRowid == 5
SettingKeys == {"theme", "clinic"}
SettingValues == {"dark", "light", NULL}

NextSettings ==
  \/ \E k \in SettingKeys, v \in SettingValues :
       /\ NextRowid(store.settings) <= MaxRowid
       /\ saveSettings(k, v)
  \/ getSettings

SpecSettings == InitOpened /\ [][NextSettings]_vars

\* getSettings() on the file `s`.
AllSettings(s) == FoldSettings(SqlSelectSettings(s).result, <<>>)
RowsWithKey(s, k) == {i \in DOMAIN s.settings : s.settings[i].key = k}

\* C8: saveSettings(k, v) never raises; after it getSettings maps k to v,
\* k is stored once, and every other key maps to what it mapped to before
\* (so each key maps to the value of its last save).
C8_LastSaveWins ==
  [][/\ ret'.op = "saveSettings" =>
          LET k == ret'.args[1]
              v == ret'.args[2]
          IN  /\ ret'.raised = NoError
              /\ k \in DOMAIN AllSettings(store')
              /\ AllSettings(store')[k] = v
              /\ Cardinality(RowsWithKey(store', k)) = 1
              /\ DOMAIN AllSettings(store') = DOMAIN AllSettings(store) \cup {k}
              /\ \A j \in DOMAIN AllSettings(store) \ {k} :
                    AllSettings(store')[j] = AllSettings(store)[j]
     /\ ret'.op = "getSettings" =>
          /\ ret'.raised = NoError
          /\ ret'.value = AllSettings(store)
    ]_vars

\* Three saves left two rows: a key was saved again with another value.
C8_Witness ==
  /\ ret.op = "saveSettings"
  /\ ret.value.lastInsertId = 3
  /\ Len(store.settings) = 2
  /\ AllSettings(store)[ret.args[1]] = ret.args[2]
  /\ store.settings[1].rowid = 2

---------------------------------------------------------------------------
(* Templates.                                                              *)

MaxTemplates == 3
TemplateNames == {"Template A", "Template B"}
TemplateContents == {"Normal study.", "No abnormalities."}

NextTemplates ==
  \/ \E n \in TemplateNames, c \in TemplateContents :
       /\ store.seq.templates < MaxTemplates
       /\ addTemplate([id |-> 0, name |-> n, content |-> c])
  \/ \E id \in 1..MaxTemplates, n \in TemplateNames, c \in TemplateContents :
       updateTemplate([id |-> id, name |-> n, content |-> c])
  \/ \E id \in 1..MaxTemplates : deleteTemplate(id)
  \/ getTemplates

SpecTemplates == InitOpened /\ [][NextTemplates]_vars

UniqueNames(rows) == \A i, j \in DOMAIN rows : rows[i].name = rows[j].name => i = j
Names(rows) == {rows[i].name : i \in DOMAIN rows}

\* C7: getTemplates never holds two rows of one name; addTemplate with the
\* name of a stored template raises the uniqueness violation and leaves
\* the stored templates as they were.
C7_TemplateNamesUnique ==
  [][/\ UniqueNames(SqlSelectTemplates(store').result)
     /\ Len(SqlSelectTemplates(store').result) = Len(store'.templates)
     /\ (ret'.op = "getTemplates" => ret'.value = SqlSelectTemplates(store').result)
     /\ (ret'.op = "addTemplate" /\ ret'.args.name \in Names(store.templates))
          => /\ ret'.raised = UniqueFailed
             /\ store'.templates = store.templates
    ]_vars

C7_Witness ==
  /\ ret.op = "addTemplate"
  /\ ret.raised = UniqueFailed
  /\ ret.args.name \in Names(store.templates)
  /\ Len(store.templates) = 1

---------------------------------------------------------------------------
(* The shell and overlapping facade calls.  Every await is a point where   *)
(* another call may run: a call is at "open" while Database.load is        *)
(* pending and at "run" before each statement it hands to this.db.         *)

InitShell ==
  /\ db = NoHandle
  /\ loads = 0
  /\ store = EmptyStore
  /\ ret = Returned("constructor", <<>>, <<>>, <<>>)
  /\ calls = NoCalls
  /\ app = AppRendered

\* The effect of App runs once, after the first render.
AppEffect ==
  /\ app.effect = "pending"
  /\ app' = AppAfterEffect
  /\ UNCHANGED <<db, loads, store, ret, calls>>

ShellOps == {"getPatients", "saveSettings", "createTables"}

\* A caller enters execute / query / createTables:
\* if (!this.db) await this.open()  -- open() invokes Database.load.
Invoke(c, op) ==
  /\ calls[c].pc = "idle"
  /\ IF db = NoHandle
     THEN /\ loads < MaxLoads
          /\ loads' = loads + 1
          /\ calls' = [calls EXCEPT ![c] = [pc |-> "open", op |-> op, i |-> 1,
                                            h |-> loads + 1]]
     ELSE /\ loads' = loads
          /\ calls' = [calls EXCEPT ![c] = [pc |-> "run", op |-> op, i |-> 1,
                                            h |-> NoHandle]]
  /\ UNCHANGED <<db, store, ret, app>>

\* this.db = await Database.load(...): the load of this call resolves.
LoadResolves(c) ==
  /\ calls[c].pc = "open"
  /\ db' = calls[c].h
  /\ calls' = [calls EXCEPT ![c].pc = "run"]
  /\ UNCHANGED <<loads, store, ret, app>>

\* The load rejects: open() logs and rethrows, and so does the call.
LoadRejects(c) ==
  /\ calls[c].pc = "open"
  /\ ret' = Raised(calls[c].op, <<>>, LoadFailed, <<LogLoad>>, <<>>)
  /\ calls' = [calls EXCEPT ![c] = Idle]
  /\ UNCHANGED <<db, loads, store, app>>

\* The statement of a query / execute call is handed to this.db.
RunStatement(c) ==
  /\ calls[c].pc = "run"
  /\ calls[c].op # "createTables"
  /\ LET op == calls[c].op
         r == IF op = "getPatients" THEN SqlSelectPatients(store)
              ELSE SqlInsertOrReplaceSetting(store, "theme", "dark")
         held == [db |-> db, loads |-> loads, error |-> NoError]
     IN  /\ ret' = IF db = NoHandle
                   THEN Raised(op, <<>>, "TypeError", <<LogExecute>>, <<>>)
                   ELSE Run(op, <<>>, held, r,
                            IF op = "getPatients" THEN LogQuery ELSE LogExecute)
         /\ store' = IF db = NoHandle THEN store ELSE r.store
  /\ calls' = [calls EXCEPT ![c] = Idle]
  /\ UNCHANGED <<db, loads, app>>

\* One turn of the loop of createTables: statement i is handed to this.db;
\* the engine runs it or rejects it.  A rejection is caught and ends the loop.
CreateTablesStep(c) ==
  /\ calls[c].pc = "run"
  /\ calls[c].op = "createTables"
  /\ \E ok \in BOOLEAN :
       LET i == calls[c].i
           ran == SubSeq(tablesSql, 1, i)
           done == [op |-> "createTables", args |-> <<>>, raised |-> NoError,
                    logged |-> IF ok /\ db # NoHandle THEN <<>> ELSE <<LogTables>>,
                    value |-> <<>>, ran |-> ran,
                    failed |-> IF ok /\ db # NoHandle THEN <<>> ELSE <<tablesSql[i]>>]
       IN  /\ store' = IF ok /\ db # NoHandle
                       THEN SqlCreateTableIfNotExists(store, i) ELSE store
           /\ IF ok /\ db # NoHandle /\ i < Len(tablesSql)
              THEN /\ calls' = [calls EXCEPT ![c].i = i + 1]
                   /\ ret' = ret
              ELSE /\ calls' = [calls EXCEPT ![c] = Idle]
                   /\ ret' = done
  /\ UNCHANGED <<db, loads, app>>

NextShell ==
  \/ AppEffect
  \/ \E c \in Callers, op \in ShellOps : Invoke(c, op)
  \/ \E c \in Callers : LoadResolves(c)
  \/ \E c \in Callers : LoadRejects(c)
  \/ \E c \in Callers : RunStatement(c)
  \/ \E c \in Callers : CreateTablesStep(c)

SpecShell == InitShell /\ [][NextShell]_vars

\* C3: Database.load is invoked only while no handle is held, a handle
\* once set is never replaced by another one, and every statement is run
\* on an opened handle -- in every interleaving of facade calls.
C3_OpenOnceThenReuse ==
  [][/\ loads' > loads => db = NoHandle
     /\ db # NoHandle => db' = db
     /\ \A c \in Callers : calls'[c].pc = "run" => db' # NoHandle
    ]_vars

\* C4: once the effect of App's first render has run, the shell has
\* invoked createTables exactly once.
C4_ShellInitializesSchema ==
  app.effect # "pending"
    => (app.effect = "returned" /\ app.createTablesCalls = 1)

=============================================================================
